---- MODULE Spec2Model ----
(***************************************************************************)
(* A model of src/Code.py: class StockAnalysis.                            *)
(*                                                                         *)
(* The two pandas tables of the object are sequences of records, one       *)
(* record per row, in row order.  A date is the tuple <<year, month, day>> *)
(* of a pandas Timestamp and a time-of-day is the tuple <<hour, minute,    *)
(* second>> of a datetime.time; both are compared as Python compares them. *)
(* A float that is the mean of integers is kept as a reduced fraction      *)
(* [num, den]; den = 0 is NaN.  With the magnitudes of the model the       *)
(* float64 comparison of an integer-valued sum with such a mean agrees     *)
(* with the exact comparison of the fractions.                             *)
(***************************************************************************)
EXTENDS Integers, Sequences, FiniteSets, Bags, TLC

VARIABLES
    daily_data,       \* self.daily_data: rows [stock, date, volume]
    intraday_data,    \* self.intraday_data: rows [stock, date, time, qty]
    avg_volumes,      \* the avg_volumes dict given to the last analysis, in
                      \* insertion order: rows [stock, date, avg]
    rolling_19,       \* all_rolling_data_19_df of the last completed analysis
    rolling_22,       \* all_rolling_data_22_df of the last completed analysis
    results,          \* the results dict of the last completed analysis,
                      \* in insertion order: rows [stock, date, time]
    files,            \* the CSV files written by save_to_csv
    status,           \* "new", or how the last analysis ended: "ok" / "raised"
    runs,             \* number of run_analysis calls made on this object
    loaded_daily,     \* the daily table as the constructor loaded it
    loaded_intraday   \* the intraday table as the constructor loaded it

vars == <<daily_data, intraday_data, avg_volumes, rolling_19, rolling_22,
          results, files, status, runs, loaded_daily, loaded_intraday>>

-----------------------------------------------------------------------------
(* Bounds of the model and constants of the program.                       *)

\* rolling(window=3600, ...): the window length in ticks.  A table of more
\* than 3600 rows is out of reach of explicit-state checking, so the window
\* is scaled down; every definition and every property below is stated in
\* terms of Window, whatever its value.
Window == 2

\* head(30): the number of daily records averaged.
HeadDays == 30

\* The number of consecutive trading days, ending on 16-04-2024, for which
\* the long daily history of stock "A" has one record each.
PadDays == 30

\* Most rows of the daily table besides the long history.
MaxFree == 2

\* Most rows of the daily table, and of the intraday table, of a small input.
MaxDaily == 2
MaxTicks == 2

\* Most calls of run_analysis on one object.
MaxRuns == 2

-----------------------------------------------------------------------------
(* Values.                                                                 *)

\* Python's None for a crossing that never happened
None == <<>>

\* float('nan'), the mean of an empty selection
NaN == [num |-> 0, den |-> 0]

\* the default 0 of avg_volumes.get(key, 0)
Zero == [num |-> 0, den |-> 1]

\* the dates the analysis is run for, as the strings the code uses as keys
RefDates == <<"19-04-2024", "22-04-2024">>

\* pd.Timestamp(Date) of the two date strings: day first, as 19 and 22 are
\* no month
Timestamp(str) ==
    CASE str = "19-04-2024" -> <<2024, 4, 19>>
      [] str = "22-04-2024" -> <<2024, 4, 22>>

\* datetime.strptime("09:15:00", "%H:%M:%S").time()
market_open == <<9, 15, 0>>

\* Timestamp a < Timestamp b
DateLT(a, b) ==
    \/ a[1] < b[1]
    \/ a[1] = b[1] /\ a[2] < b[2]
    \/ a[1] = b[1] /\ a[2] = b[2] /\ a[3] < b[3]

\* datetime.time a < datetime.time b
TimeLT(a, b) ==
    \/ a[1] < b[1]
    \/ a[1] = b[1] /\ a[2] < b[2]
    \/ a[1] = b[1] /\ a[2] = b[2] /\ a[3] < b[3]

\* datetime.time a >= datetime.time b
TimeGE(a, b) == ~TimeLT(a, b)

\* the order in which groupby('Stock Name') yields its sorted group keys
StockRank(s) == CASE s = "A" -> 1 [] s = "B" -> 2

\* the sequence that a function on 1..n is, as a tuple
Rows(f) == f \o <<>>

Min(a, b) == IF a < b THEN a ELSE b
Max(a, b) == IF a > b THEN a ELSE b

RECURSIVE GCD(_, _)
GCD(a, b) == IF b = 0 THEN a ELSE GCD(b, a % b)

RECURSIVE SeqSum(_)
SeqSum(s) == IF s = <<>> THEN 0 ELSE Head(s) + SeqSum(Tail(s))

\* Series.mean() of a column of integers: NaN when the column is empty
Mean(col) ==
    IF col = <<>> THEN NaN
    ELSE LET total == SeqSum(col)
             n     == Len(col)
             g     == GCD(total, n)
         IN  [num |-> total \div g, den |-> n \div g]

\* cum >= avg in place of cum > avg
ExceedsOrEqual(cum, avg) == avg.den > 0 /\ cum * avg.den >= avg.num

\* cum > avg on floats: False whenever avg is NaN
Exceeds(cum, avg) == avg.den > 0 /\ cum * avg.den > avg.num

-----------------------------------------------------------------------------
(* calculate_30_day_avg and get_avg_volumes.                               *)

\* sort_values(by='Date', ascending=False); rows of one date keep their order
SortByDateDesc(s) == SortSeq(s, LAMBDA a, b : DateLT(b.date, a.date))

\* a mask with Date <= target_date in place of Date < target_date
PriorRowsInclusive(daily, stock_name, target_date) ==
    SelectSeq(daily, LAMBDA r : r.stock = stock_name /\ ~DateLT(target_date, r.date))

\* the boolean mask of calculate_30_day_avg
PriorRows(daily, stock_name, target_date) ==
    SelectSeq(daily, LAMBDA r : r.stock = stock_name /\ DateLT(r.date, target_date))

calculate_30_day_avg(daily, stock_name, target_date) ==
    LET filtered_data == PriorRows(daily, stock_name, target_date)
        sorted        == SortByDateDesc(filtered_data)
        head          == SubSeq(sorted, 1, Min(HeadDays, Len(sorted)))
    IN  Mean(Rows([i \in 1..Len(head) |-> head[i].volume]))

\* daily_data['Stock Name'].unique(): the stocks in order of first appearance
RECURSIVE Unique(_)
Unique(col) ==
    IF col = <<>> THEN <<>>
    ELSE LET rest == Unique(SubSeq(col, 1, Len(col) - 1))
             x    == col[Len(col)]
         IN  IF \E i \in 1..Len(rest) : rest[i] = x THEN rest ELSE Append(rest, x)

StockColumn(table) == Rows([i \in 1..Len(table) |-> table[i].stock])

get_avg_volumes(daily) ==
    LET stocks == Unique(StockColumn(daily))
    IN  Rows([n \in 1..(2 * Len(stocks)) |->
            LET stock_name == stocks[(n + 1) \div 2]
                Date       == RefDates[2 - (n % 2)]
            IN  [stock |-> stock_name, date |-> Date,
                 avg   |-> calculate_30_day_avg(daily, stock_name, Timestamp(Date))]])

\* avg_volumes.get((stock_name, Date), 0)
AvgGet(avg, stock_name, Date) ==
    IF \E i \in 1..Len(avg) : avg[i].stock = stock_name /\ avg[i].date = Date
    THEN avg[CHOOSE i \in 1..Len(avg) :
                 avg[i].stock = stock_name /\ avg[i].date = Date].avg
    ELSE Zero

-----------------------------------------------------------------------------
(* analyze_intraday_data.                                                  *)

\* a filter with Time > market_open in place of Time >= market_open
MarketOpenFilterStrict(table) ==
    SelectSeq(table, LAMBDA r : TimeLT(market_open, r.time))

\* a filter that also drops the first row it keeps
MarketOpenFilterDropFirst(table) ==
    LET kept == SelectSeq(table, LAMBDA r : ~TimeLT(r.time, market_open))
    IN  IF kept = <<>> THEN kept ELSE Tail(kept)

\* self.intraday_data[self.intraday_data['Time'] >= market_open]
MarketOpenFilter(table) ==
    SelectSeq(table, LAMBDA r : TimeGE(r.time, market_open))

\* the table left in its order of arrival
Unsorted(s) == s

\* sort_values(by='Time'): on the short tables of the model the sort places
\* rows of one time in their order of arrival
SortByTime(s) == SortSeq(s, LAMBDA a, b : TimeLT(a.time, b.time))

\* a running sum from which no value is ever removed
RECURSIVE ExpandingSumAt(_, _)
ExpandingSumAt(q, i) ==
    IF i = 0 THEN 0 ELSE ExpandingSumAt(q, i - 1) + q[i]

\* a running sum whose window is one tick short
RECURSIVE ShortWindowSumAt(_, _)
ShortWindowSumAt(q, i) ==
    IF i = 0 THEN 0
    ELSE ShortWindowSumAt(q, i - 1) + q[i]
             - (IF i >= Window THEN q[i - Window + 1] ELSE 0)

\* rolling(window=Window, min_periods=1).sum() of a column: the running sum
\* to which each value is added and from which the value that leaves the
\* window is removed
RECURSIVE RollingSumAt(_, _)
RollingSumAt(q, i) ==
    IF i = 0 THEN 0
    ELSE RollingSumAt(q, i - 1) + q[i] - (IF i > Window THEN q[i - Window] ELSE 0)

RollingSum(q) == Rows([i \in 1..Len(q) |-> RollingSumAt(q, i)])

\* the group keys of groupby('Stock Name'), ascending
GroupKeys(table) ==
    SortSeq(Unique(StockColumn(table)), LAMBDA a, b : StockRank(a) < StockRank(b))

\* daily_stock_data of one pass of the loop, with its cumulative_volume column
DailyStockData(table, stock_name, Date) ==
    LET stock_data == SelectSeq(table, LAMBDA r : r.stock = stock_name)
        on_date    == SelectSeq(stock_data, LAMBDA r : r.date = Timestamp(Date))
        sorted     == SortByTime(on_date)
        cum        == RollingSum(Rows([i \in 1..Len(sorted) |-> sorted[i].qty]))
    IN  Rows([i \in 1..Len(sorted) |->
            [stock |-> sorted[i].stock, date |-> sorted[i].date,
             time  |-> sorted[i].time,  qty  |-> sorted[i].qty,
             cum   |-> cum[i]]])

\* exceed_timestamp.iloc[0] if exceed_timestamp is not empty, else None
FirstExceed(series, avg_volume) ==
    LET exceed == SelectSeq(series, LAMBDA p : Exceeds(p.cum, avg_volume))
    IN  IF exceed = <<>> THEN None ELSE exceed[1].time

\* pd.concat(frames, ignore_index=True)
RECURSIVE Concat(_)
Concat(frames) ==
    IF frames = <<>> THEN <<>> ELSE Head(frames) \o Concat(Tail(frames))

\* What analyze_intraday_data(avg) does to a table: the table it leaves in
\* self.intraday_data, and either the three values it returns or the
\* ValueError of pd.concat on an empty list
analyze_intraday_data(table, avg) ==
    LET kept == MarketOpenFilter(table)
        keys == GroupKeys(kept)
        all_rolling_data_19 ==
            Rows([g \in 1..Len(keys) |-> DailyStockData(kept, keys[g], RefDates[1])])
        all_rolling_data_22 ==
            Rows([g \in 1..Len(keys) |-> DailyStockData(kept, keys[g], RefDates[2])])
        res ==
            Rows([n \in 1..(2 * Len(keys)) |->
                LET stock_name == keys[(n + 1) \div 2]
                    Date       == RefDates[2 - (n % 2)]
                IN  [stock |-> stock_name, date |-> Date,
                     time  |-> FirstExceed(DailyStockData(kept, stock_name, Date),
                                           AvgGet(avg, stock_name, Date))]])
    IN  [intraday   |-> kept,
         raised     |-> (keys = <<>>),
         rolling_19 |-> Concat(all_rolling_data_19),
         rolling_22 |-> Concat(all_rolling_data_22),
         results    |-> res]

-----------------------------------------------------------------------------
(* save_to_csv and run_analysis.                                           *)

NoFiles ==
    [written |-> FALSE, average_volumes |-> <<>>, rolling_volume_19042024 |-> <<>>,
     rolling_volume_22042024 |-> <<>>, exceed_volume_results |-> <<>>]

save_to_csv(avg, all_rolling_19, all_rolling_22, res) ==
    [written |-> TRUE, average_volumes |-> avg,
     rolling_volume_19042024 |-> all_rolling_19,
     rolling_volume_22042024 |-> all_rolling_22,
     exceed_volume_results |-> res]

\* What run_analysis does with the two tables of an object
run_analysis(daily, table) ==
    LET avg == get_avg_volumes(daily)
        out == analyze_intraday_data(table, avg)
    IN  [avg |-> avg, out |-> out,
         files |-> save_to_csv(avg, out.rolling_19, out.rolling_22, out.results)]

-----------------------------------------------------------------------------
(* The inputs: what the constructor can have loaded.                       *)

Stocks == {"A", "B"}

\* day n of April 2024 for n >= 1, and the days of March before it
DateOfOrdinal(n) == IF n >= 1 THEN <<2024, 4, n>> ELSE <<2024, 3, 31 + n>>

SeqsUpTo(S, n) == UNION {[1..k -> S] : k \in 0..n}

Reverse(s) == Rows([i \in 1..Len(s) |-> s[Len(s) + 1 - i]])

\* one DailyRecord per stock and trading day
UniqueDays(daily) ==
    \A i, j \in 1..Len(daily) :
        (daily[i].stock = daily[j].stock /\ daily[i].date = daily[j].date) => i = j

\* a long history of stock "A": one record for each of the n days that end
\* on 16-04-2024, the latest first
History(n) ==
    Rows([i \in 1..n |-> [stock |-> "A", date |-> DateOfOrdinal(17 - i),
                          volume |-> 1 + (i % 3)]])

FreeDailyRows ==
    [stock : Stocks,
     date : {<<2024, 4, 18>>, <<2024, 4, 19>>}, volume : {1, 4}]

SmallDailyRows ==
    [stock : Stocks, date : {<<2024, 4, 18>>}, volume : {2}]

Times == {<<9, 14, 59>>, <<9, 15, 0>>, <<10, 0, 0>>}

\* the ticks of one stock on one date
SeriesTicks ==
    [stock : {"A"}, date : {<<2024, 4, 19>>}, time : Times, qty : {0, 2}]

SmallTicks ==
    [stock : Stocks, date : {<<2024, 4, 19>>, <<2024, 4, 22>>},
     time : {<<9, 14, 59>>, <<9, 15, 0>>}, qty : {3}]

\* Long daily histories, a fixed intraday table
InitBaseline ==
    \E free \in SeqsUpTo(FreeDailyRows, MaxFree) :
    \E daily \in {d \in {free, free \o History(PadDays),
                         Reverse(History(PadDays)) \o free} : UniqueDays(d)} :
        /\ loaded_daily = daily
        /\ loaded_intraday =
               <<[stock |-> "A", date |-> <<2024, 4, 19>>, time |-> <<9, 15, 0>>,
                  qty |-> 3]>>

\* Series longer than the window, of one stock on one date
InitSeries ==
    \E daily \in {<<[stock |-> "A", date |-> <<2024, 4, 18>>, volume |-> 2]>>,
                  <<[stock |-> "A", date |-> <<2024, 4, 19>>, volume |-> 2]>>} :
    \E ticks \in SeqsUpTo(SeriesTicks, Window + 1) :
        /\ loaded_daily = daily
        /\ loaded_intraday = ticks

\* Several stocks and dates, few rows
InitSmall ==
    \E daily \in {d \in SeqsUpTo(SmallDailyRows, MaxDaily) : UniqueDays(d)} :
    \E ticks \in SeqsUpTo(SmallTicks, MaxTicks) :
        /\ loaded_daily = daily
        /\ loaded_intraday = ticks

Init ==
    /\ InitBaseline \/ InitSeries \/ InitSmall
    /\ daily_data = loaded_daily
    /\ intraday_data = loaded_intraday
    /\ avg_volumes = <<>>
    /\ rolling_19 = <<>>
    /\ rolling_22 = <<>>
    /\ results = <<>>
    /\ files = NoFiles
    /\ status = "new"
    /\ runs = 0

-----------------------------------------------------------------------------
(* The operations.                                                         *)

\* analysis.analyze_intraday_data(av): the caller passes the dict that
\* get_avg_volumes returns, or an empty dict
AnalyzeIntradayData ==
    \E av \in {<<>>, get_avg_volumes(daily_data)} :
        LET out == analyze_intraday_data(intraday_data, av)
        IN  /\ avg_volumes' = av
            /\ intraday_data' = out.intraday
            /\ IF out.raised
               THEN /\ status' = "raised"
                    /\ UNCHANGED <<rolling_19, rolling_22, results>>
               ELSE /\ status' = "ok"
                    /\ rolling_19' = out.rolling_19
                    /\ rolling_22' = out.rolling_22
                    /\ results' = out.results
            /\ UNCHANGED <<daily_data, files, runs, loaded_daily, loaded_intraday>>

\* analysis.run_analysis()
RunAnalysis ==
    /\ runs < MaxRuns
    /\ runs' = runs + 1
    /\ LET run == run_analysis(daily_data, intraday_data)
       IN  /\ avg_volumes' = run.avg
           /\ intraday_data' = run.out.intraday
           /\ IF run.out.raised
              THEN /\ status' = "raised"
                   /\ UNCHANGED <<rolling_19, rolling_22, results, files>>
              ELSE /\ status' = "ok"
                   /\ rolling_19' = run.out.rolling_19
                   /\ rolling_22' = run.out.rolling_22
                   /\ results' = run.out.results
                   /\ files' = run.files
    /\ UNCHANGED <<daily_data, loaded_daily, loaded_intraday>>

Next == AnalyzeIntradayData \/ RunAnalysis

Spec == Init /\ [][Next]_vars

-----------------------------------------------------------------------------
(* What the properties are stated with.                                    *)

\* a date and a time-of-day as numbers that grow with them
Chron(date) == date[1] * 10000 + date[2] * 100 + date[3]
Secs(time) == time[1] * 3600 + time[2] * 60 + time[3]

\* the reference date that a key of the dicts names
RefChron(Date) == IF Date = "19-04-2024" THEN 20240419 ELSE 20240422

\* the rows of the daily table that are of a stock and strictly before a
\* reference date, and among them the HeadDays most recent
Prior(stock_name, Date) ==
    {i \in 1..Len(daily_data) :
        /\ daily_data[i].stock = stock_name
        /\ Chron(daily_data[i].date) < RefChron(Date)}

MostRecent(stock_name, Date) ==
    LET P == Prior(stock_name, Date)
    IN  {i \in P :
            Cardinality({j \in P : Chron(daily_data[j].date) >
                                   Chron(daily_data[i].date)}) < HeadDays}

RECURSIVE VolumeSum(_)
VolumeSum(S) ==
    IF S = {} THEN 0
    ELSE LET i == CHOOSE i \in S : TRUE
         IN  daily_data[i].volume + VolumeSum(S \ {i})

\* the rolling table of a reference date, and in it the series of a stock
RollingTable(Date) == IF Date = "19-04-2024" THEN rolling_19 ELSE rolling_22

SeriesOf(stock_name, Date) ==
    SelectSeq(RollingTable(Date), LAMBDA r : r.stock = stock_name)

AllSeries == {SeriesOf(s, RefDates[d]) : s \in Stocks, d \in 1..2}

RECURSIVE QtySum(_, _, _)
QtySum(S, lo, hi) == IF lo > hi THEN 0 ELSE S[hi].qty + QtySum(S, lo, hi - 1)

\* the baseline an analysis was given for a stock and a date: 0 where the
\* dict has no entry
BaselineOf(stock_name, Date) ==
    LET rows == {n \in 1..Len(avg_volumes) :
                    avg_volumes[n].stock = stock_name /\ avg_volumes[n].date = Date}
    IN  IF rows = {} THEN [num |-> 0, den |-> 1]
        ELSE avg_volumes[CHOOSE n \in rows : TRUE].avg

\* the time of the first point of a series that satisfies Hit, None if none does
FirstTime(S, Hit(_)) ==
    LET hits == {i \in 1..Len(S) : Hit(S[i])}
    IN  IF hits = {} THEN None
        ELSE S[CHOOSE i \in hits : \A j \in hits : i <= j].time

\* how often each value occurs in a sequence
BagOf(seq) ==
    [e \in {seq[i] : i \in 1..Len(seq)} |->
        Cardinality({i \in 1..Len(seq) : seq[i] = e})]

Points(seq) == [i \in 1..Len(seq) |-> <<seq[i].time, seq[i].qty>>]

\* the ticks the constructor loaded for a stock and a date, at or after 09:15:00
RetainedTicks(stock_name, Date) ==
    SelectSeq(loaded_intraday,
              LAMBDA t : /\ t.stock = stock_name
                         /\ Chron(t.date) = RefChron(Date)
                         /\ Secs(t.time) >= 33300)

-----------------------------------------------------------------------------
(* The properties.                                                         *)

\* C1: every baseline computed for a stock and a reference date, when the
\* stock has k >= 1 daily records strictly before that date, is the mean of
\* the volumes of exactly the min(k, 30) most recent of them; no record of
\* another stock and no record on or after the date is counted.
C1_BaselineIsMeanOfMostRecent ==
    \A n \in 1..Len(avg_volumes) :
        LET row == avg_volumes[n]
            P   == Prior(row.stock, row.date)
            R   == MostRecent(row.stock, row.date)
        IN  P # {} =>
                /\ Cardinality(R) = Min(Cardinality(P), HeadDays)
                /\ row.avg.den > 0
                /\ row.avg.num * Cardinality(R) = row.avg.den * VolumeSum(R)

\* a baseline over more than 30 prior records, in a table that also holds a
\* record of another stock
C1_Witness ==
    \E n \in 1..Len(avg_volumes) :
        /\ Cardinality(Prior(avg_volumes[n].stock, avg_volumes[n].date)) > HeadDays
        /\ \E i \in 1..Len(daily_data) : daily_data[i].stock # avg_volumes[n].stock

C3_CrossingIsFirstStrictlyAbove ==
    status = "ok" =>
        \A n \in 1..Len(results) :
            LET row == results[n]
                b   == BaselineOf(row.stock, row.date)
                Above(p) == b.den > 0 /\ p.cum * b.den > b.num
            IN  row.time = FirstTime(SeriesOf(row.stock, row.date), Above)

\* a crossing found behind a first point whose cumulative volume equals the
\* baseline
C3_Witness ==
    /\ status = "ok"
    /\ \E n \in 1..Len(results) :
           LET row == results[n]
               b   == BaselineOf(row.stock, row.date)
               S   == SeriesOf(row.stock, row.date)
           IN  /\ row.time # None
               /\ b.den > 0
               /\ S[1].cum * b.den = b.num

\* C4 (as claimed): for a stock with no daily record strictly before the
\* reference date, the crossing is the time of the first point with a
\* positive cumulative volume.
C4_NoHistoryMeansZeroThreshold ==
    status = "ok" =>
        \A n \in 1..Len(results) :
            LET row == results[n]
                Positive(p) == p.cum > 0
            IN  Prior(row.stock, row.date) = {} =>
                    row.time = FirstTime(SeriesOf(row.stock, row.date), Positive)

\* C5: after an analysis, the series of a stock and a date has one point for
\* each tick loaded for that stock and date at or after 09:15:00 and no
\* other point, and its points are in ascending order of time.
C5_SeriesIsRetainedTicksInTimeOrder ==
    status = "ok" =>
        \A s \in Stocks, d \in 1..2 :
            LET S == SeriesOf(s, RefDates[d])
                T == RetainedTicks(s, RefDates[d])
            IN  /\ Len(S) = Len(T)
                /\ BagOf(Points(S)) = BagOf(Points(T))
                /\ \A i \in 1..Len(S) : Chron(S[i].date) = RefChron(RefDates[d])
                /\ \A i \in 2..Len(S) : Secs(S[i - 1].time) <= Secs(S[i].time)

\* a stock with a tick at exactly 09:15:00 and an earlier tick on one date
C5_Witness ==
    /\ status = "ok"
    /\ \E i, j \in 1..Len(loaded_intraday) :
           /\ loaded_intraday[i].stock = loaded_intraday[j].stock
           /\ loaded_intraday[i].date = loaded_intraday[j].date
           /\ loaded_intraday[i].date = <<2024, 4, 19>>
           /\ loaded_intraday[i].time = <<9, 15, 0>>
           /\ Secs(loaded_intraday[j].time) < 33300

\* the stocks of the daily table
DailyStocks == {daily_data[i].stock : i \in 1..Len(daily_data)}

\* C6 (as claimed): the crossing-results table written by run_analysis has
\* exactly one row for every stock of the daily table and every reference
\* date, also when the stock has no tick at or after 09:15:00.
C6_OneRowPerDailyStockAndDate ==
    files.written =>
        LET rows == files.exceed_volume_results
        IN  \A s \in DailyStocks, d \in 1..2 :
                Cardinality({n \in 1..Len(rows) :
                    rows[n].stock = s /\ rows[n].date = RefDates[d]}) = 1

\* C7 (as claimed): an analysis of a table that holds ticks never ends in an
\* exception, also when none of the ticks is at or after 09:15:00.
C7_AnalysisNeverRaises == loaded_intraday # <<>> => status # "raised"

\* C8 (as claimed): along every series the cumulative volume never falls.
C8_CumulativeNeverFalls ==
    \A S \in AllSeries :
        \A i \in 2..Len(S) : S[i].cum >= S[i - 1].cum

\* C8 (amended): along the first Window points of every series the
\* cumulative volume never falls.
C8_CumulativeNeverFallsWithinWindow ==
    \A S \in AllSeries :
        \A i \in 2..Min(Len(S), Window) : S[i].cum >= S[i - 1].cum

\* a series longer than the window whose cumulative volume has risen
C8_Witness ==
    \E S \in AllSeries : Len(S) > Window /\ S[2].cum > S[1].cum

\* C9 (as claimed): along every series the time-of-day strictly increases.
C9_TimeStrictlyIncreases ==
    \A S \in AllSeries :
        \A i \in 2..Len(S) : Secs(S[i - 1].time) < Secs(S[i].time)

\* C9 (amended): along every series the time-of-day never decreases.
C9_TimeNeverDecreases ==
    \A S \in AllSeries :
        \A i \in 2..Len(S) : Secs(S[i - 1].time) <= Secs(S[i].time)

\* a series of ticks loaded out of time order, two of them at one time
C9_Witness ==
    /\ \E S \in AllSeries :
           Len(S) >= 3 /\ S[1].time = S[2].time
                       /\ Secs(S[2].time) < Secs(S[3].time)
    /\ \E i \in 2..Len(loaded_intraday) :
           Secs(loaded_intraday[i].time) < Secs(loaded_intraday[i - 1].time)

\* C10: no run changes the daily table, and the files a run writes,
\* whatever was run on the object before, are the files that a run on a new
\* object with the same input writes.
C10_RunsGiveTheSameTables ==
    /\ daily_data = loaded_daily
    /\ files.written =>
           files = run_analysis(loaded_daily, loaded_intraday).files

\* a second run on an object whose intraday table the first run has filtered
C10_Witness ==
    /\ runs >= 2
    /\ files.written
    /\ intraday_data # loaded_intraday
    /\ Len(files.rolling_volume_19042024) >= 2

====
